---- MODULE Spec2Model ----
(***************************************************************************)
(* Character-level Markov chain text generator (generate.py).              *)
(*                                                                         *)
(* One behaviour is one set of arguments of generate(): the character      *)
(* filter next_character is a generator that create_automaton pulls value  *)
(* by value, the count table is normalised, and the walk samples `length`  *)
(* characters.  The walk is modelled for two calls of generate() made with *)
(* the same arguments: the automaton both calls build is a function of the *)
(* arguments alone and is built once, the two walks advance side by side.  *)
(*                                                                         *)
(* Strings are sequences of one-character strings.  A dict is a sequence   *)
(* of [key, val] records in insertion order (the iteration order of a      *)
(* Python dict).  A float count/total is the pair [num, den]; sums and     *)
(* comparisons of probabilities are exact rational arithmetic.             *)
(***************************************************************************)
EXTENDS Integers, Sequences, FiniteSets, TLC

VARIABLES
    text,         \* content of the source file `filename`
    order,        \* argument order
    length,       \* argument length
    seed,         \* argument seed: <<n>>, or <<>> when absent (None)
    ignore_case,  \* argument ignore_case
    raw,          \* argument raw: the source is a text (TRUE) or a saved automaton
    export,       \* argument export: save the automaton built
    json_file,    \* the JSON file read by import_automaton or written by save_automaton
    gen,          \* the generator next_character: pos, first_char, last_char, done
    yielded,      \* history of the values the generator yielded: [at, val]
    curr,         \* create_automaton: current context
    counts,       \* create_automaton: the defaultdict of defaultdict(int)
    automaton,    \* generate: the normalised automaton
    pc,           \* position in generate / create_automaton
    error,        \* exception raised while building, "none" otherwise
    state,        \* generate: current context, per call
    res,          \* generate: characters produced so far, per call
    index,        \* generate: loop index, per call
    outcome       \* per call: "idle", "running", "returned" or the exception

vars == <<text, order, length, seed, ignore_case, raw, export, json_file, gen,
          yielded, curr, counts, automaton, pc, error, state, res, index, outcome>>

args == <<text, order, length, seed, ignore_case, raw, export>>

-----------------------------------------------------------------------------
(* Bounds of the model *)

MaxTextLen == 3
MaxOrder == 2
MaxLength == 3
\* random() returns one of the values 0/DrawRes .. (DrawRes-1)/DrawRes
DrawRes == 3

-----------------------------------------------------------------------------
(* Characters *)

None == "None"
NL == "\n"
TAB == "\t"
CR == "\r"
FF == "\f"
VT == "\\x0b"
SPACE == " "

\* string.printable[string.printable.index(" ") + 1 :]
non_printable == {TAB, NL, CR, VT, FF}

\* characters of the source files explored
SourceChars == {"a", "A", NL, TAB}

\* str.lower on the characters explored
lower(c) == IF c = "A" THEN "a" ELSE IF c = "B" THEN "b" ELSE c

RECURSIVE SeqsUpTo(_, _)
SeqsUpTo(S, n) ==
    IF n = 0 THEN {<<>>}
    ELSE LET shorter == SeqsUpTo(S, n - 1)
         IN  shorter \cup {Append(s, c) : s \in {t \in shorter : Len(t) = n - 1}, c \in S}

Texts == SeqsUpTo(SourceChars, MaxTextLen)

\* the training text of the concrete scenario
ScenarioText == <<"a", "b", "a", "b", "a", "b">>

\* a longer training text in which a context has successors of unequal counts
SkewedText == <<"a", "A", "a", "a", "A">>

\* the two calls of generate made with the same arguments
Calls == {1, 2}

Min(S) == CHOOSE m \in S : \A n \in S : m <= n

-----------------------------------------------------------------------------
(* next_character *)

\* a filter that compares the newline with nothing: every newline yields
YieldsMut(c, last) == c \notin non_printable \/ c = NL

\* whether source character c makes the generator yield (lines 37 and 45)
Yields(c, last) == c \notin non_printable \/ (c = NL /\ c # last)

\* a filter that reads the flag the other way round
YieldedValueMut(c) ==
    IF c \notin non_printable
    THEN (IF ignore_case THEN lower(c) ELSE c)
    ELSE SPACE

\* the value yielded for source character c (lines 38-42, 48)
YieldedValue(c) ==
    IF c \notin non_printable
    THEN (IF ~ignore_case THEN lower(c) ELSE c)
    ELSE SPACE

\* first_char after source character c made the generator yield (lines 40-41, 46-47)
FirstChar(first, c) ==
    IF first # None THEN first
    ELSE IF c \notin non_printable THEN YieldedValue(c)
    ELSE c

\* last_char after source character c made the generator yield (lines 43, 49)
LastChar(c) == IF c \notin non_printable THEN YieldedValue(c) ELSE NL

\* position of the next source character that yields, 0 when there is none
NextPos(g) ==
    LET S == {j \in (g.pos + 1)..Len(text) : Yields(text[j], g.last_char)}
    IN  IF S = {} THEN 0 ELSE Min(S)

\* one next(gen): stop is StopIteration; otherwise the value, the source
\* position it comes from (0 for the sentinel of line 50) and the generator after
GenNext(g) ==
    LET j == NextPos(g)
    IN  IF g.done THEN [stop |-> TRUE, val |-> None, at |-> 0, gen |-> g]
        ELSE IF j # 0
        THEN [stop |-> FALSE, val |-> YieldedValue(text[j]), at |-> j,
              gen |-> [pos |-> j,
                       first_char |-> FirstChar(g.first_char, text[j]),
                       last_char |-> LastChar(text[j]),
                       done |-> FALSE]]
        ELSE [stop |-> FALSE, val |-> g.first_char, at |-> 0,
              gen |-> [g EXCEPT !.pos = Len(text), !.done = TRUE]]

-----------------------------------------------------------------------------
(* dicts *)

KeyIndex(d, k) ==
    LET S == {i \in 1..Len(d) : d[i].key = k}
    IN  IF S = {} THEN 0 ELSE Min(S)

HasKey(d, k) == KeyIndex(d, k) # 0

Keys(d) == {d[i].key : i \in 1..Len(d)}

\* d[k] for a key k of d
Entry(d, k) == d[KeyIndex(d, k)].val

\* a count table whose first occurrence of a successor is recorded as 0
IncrMut(transitions, char) ==
    LET S == {i \in 1..Len(transitions) : transitions[i].key = char}
    IN  IF S = {} THEN Append(transitions, [key |-> char, val |-> 0])
        ELSE [transitions EXCEPT ![CHOOSE i \in S : TRUE].val = @ + 1]

\* transitions[char] += 1 on a defaultdict(int) (line 82)
Incr(transitions, char) ==
    LET i == KeyIndex(transitions, char)
    IN  IF i = 0 THEN Append(transitions, [key |-> char, val |-> 1])
        ELSE [transitions EXCEPT ![i].val = @ + 1]

\* automaton[curr][char] += 1 on a defaultdict of defaultdict(int) (line 82)
Count(d, c, char) ==
    LET i == KeyIndex(d, c)
    IN  IF i = 0 THEN Append(d, [key |-> c, val |-> Incr(<<>>, char)])
        ELSE [d EXCEPT ![i].val = Incr(@, char)]

\* s[1:]
DropFirst(s) == IF s = <<>> THEN <<>> ELSE Tail(s)

\* a context that grows: curr + char, the leftmost character kept
AdvanceMut(c, char) == Append(c, char)

\* curr[1:] + char (lines 83 and 206)
Advance(c, char) == Append(DropFirst(c), char)

-----------------------------------------------------------------------------
(* normalize_automaton *)

RECURSIVE SumVals(_)
SumVals(transitions) ==
    IF transitions = <<>> THEN 0
    ELSE transitions[1].val + SumVals(Tail(transitions))

\* a divisor that counts the successors instead of their occurrences
TotalOccMut(transitions) == Len(transitions)

\* total_occ = sum(transitions.values()) (line 108)
TotalOcc(transitions) == SumVals(transitions)

\* a normaliser whose probabilities are listed in the reverse order
NormalizeEntryMut(transitions) ==
    [type |-> "tuple",
     chars |-> [j \in 1..Len(transitions) |-> transitions[j].key],
     probs |-> [j \in 1..Len(transitions) |->
                  [num |-> transitions[Len(transitions) + 1 - j].val,
                   den |-> SumVals(transitions)]]]

\* (list(transitions.keys()), [v / total_occ for v in transitions.values()]):
\* a tuple of two lists
NormalizeEntry(transitions) ==
    [type |-> "tuple",
     chars |-> [j \in 1..Len(transitions) |-> transitions[j].key],
     probs |-> [j \in 1..Len(transitions) |->
                  [num |-> transitions[j].val, den |-> TotalOcc(transitions)]]]

normalize_automaton(d) ==
    [i \in 1..Len(d) |-> [key |-> d[i].key, val |-> NormalizeEntry(d[i].val)]]

-----------------------------------------------------------------------------
(* save_automaton, import_automaton *)

NoFile == [exists |-> FALSE, doc |-> <<>>]

\* json.dumps(automaton): an object whose members keep the dict's order; a
\* tuple and a list are both written as an array, a str as a string with the
\* same characters, a float as the shortest decimal that reads back as the
\* same float
json_dumps(d) ==
    [i \in 1..Len(d) |-> [key |-> d[i].key, val |-> [d[i].val EXCEPT !.type = "array"]]]

\* json.loads(file.read()): an object is read as a dict, an array as a list
json_loads(doc) ==
    [i \in 1..Len(doc) |-> [key |-> doc[i].key, val |-> [doc[i].val EXCEPT !.type = "list"]]]

\* a JSON array of two arrays: successors and probabilities
JsonEntry(chars, probs) == [type |-> "array", chars |-> chars, probs |-> probs]

Half == [num |-> 1, den |-> 2]
Whole == [num |-> 1, den |-> 1]

\* a saved automaton whose entries are well formed
ValidModel ==
    << [key |-> <<"a">>, val |-> JsonEntry(<<"a", "b">>, <<Half, Half>>)],
       [key |-> <<"b">>, val |-> JsonEntry(<<"a">>, <<Whole>>)] >>

\* a saved automaton whose probabilities sum to 0.5
HalfModel == << [key |-> <<"a">>, val |-> JsonEntry(<<"a">>, <<Half>>)] >>

\* a saved automaton with two successors and one probability
MismatchedModel == << [key |-> <<"a">>, val |-> JsonEntry(<<"a", "b">>, <<Whole>>)] >>

\* the JSON files explored when the source is a saved automaton
ModelFiles == {ValidModel, HalfModel, MismatchedModel}

-----------------------------------------------------------------------------
(* random *)

Draws == 0..(DrawRes - 1)

\* seed=None, the default of the --seed option
NoSeed == <<>>

\* a generator that is never seeded from the argument
SeededDrawsMut(s, u) == Draws

\* random.seed(seed) (line 192): with a seed the generator's stream is a
\* function of the seed, so both calls draw the same value at the same step;
\* without one it is seeded from the system's entropy
SeededDraws(s, u) == IF s = NoSeed THEN Draws ELSE {u}

\* exact sum of the first i probabilities, as [num, den]
RECURSIVE CumWeight(_, _)
CumWeight(probs, i) ==
    IF i = 0 THEN [num |-> 0, den |-> 1]
    ELSE LET c == CumWeight(probs, i - 1)
         IN  [num |-> c.num * probs[i].den + probs[i].num * c.den,
              den |-> c.den * probs[i].den]

\* a walk that always samples the first context's first successor
ChoiceMut(entry, u) == automaton[1].val.chars[1]

\* random.choices(chars, probs)[0] when random() returns u/DrawRes:
\* population[bisect(cum_weights, random() * total, 0, n - 1)]
Choice(entry, u) ==
    LET n == Len(entry.chars)
        total == CumWeight(entry.probs, n)
        below == {i \in 1..(n - 1) :
                    LET c == CumWeight(entry.probs, i)
                    IN  c.num * DrawRes * total.den <= u * total.num * c.den}
    IN  entry.chars[Cardinality(below) + 1]

\* random.choices raises ValueError when the number of weights is not that of
\* the population, or when the weights' total is not greater than zero
WeightsOk(entry) ==
    /\ Len(entry.probs) = Len(entry.chars)
    /\ LET total == CumWeight(entry.probs, Len(entry.probs))
       IN  total.num * total.den > 0

\* a lookup in an automaton that is a defaultdict: a missing key is inserted
AfterLookupMut(d, k) ==
    IF \E i \in 1..Len(d) : d[i].key = k THEN d
    ELSE Append(d, [key |-> k, val |-> [type |-> "tuple", chars |-> <<>>, probs |-> <<>>]])

\* the automaton after the lookup automaton[state]: normalize_automaton
\* returns a plain dict (res = {}, line 106) and json.loads reads one, so a
\* lookup, also of a missing key, leaves it as it is
AfterLookup(d, k) == d

-----------------------------------------------------------------------------
(* generate *)

\* The arguments explored.  A text is walked for every order from 0, every
\* length, seed and case option; the calls of length 0 also take a negative
\* order and the export option (the walk reads neither the sign of a
\* non-positive order nor export); a saved automaton is walked for every
\* length and seed (import_automaton reads neither order nor ignore_case).
Init ==
    /\ \/ /\ text \in Texts \cup {SkewedText}
          /\ order \in 0..MaxOrder
          /\ length \in 0..MaxLength
          /\ seed \in {NoSeed, <<0>>}
          /\ ignore_case \in BOOLEAN
          /\ raw = TRUE /\ export = FALSE /\ json_file = NoFile
       \/ /\ text = ScenarioText
          /\ order = 1
          /\ length = 4
          /\ seed \in {NoSeed, <<0>>}
          /\ ignore_case \in BOOLEAN
          /\ raw = TRUE /\ export = FALSE /\ json_file = NoFile
       \/ /\ text \in Texts \cup {SkewedText}
          /\ order \in (-1)..MaxOrder
          /\ length = 0
          /\ seed = NoSeed
          /\ ignore_case \in BOOLEAN
          /\ raw = TRUE /\ export \in BOOLEAN /\ json_file = NoFile
       \/ /\ text = <<>>
          /\ order = 1
          /\ length \in 0..MaxLength
          /\ seed \in {NoSeed, <<0>>}
          /\ ignore_case = FALSE
          /\ raw = FALSE /\ export = FALSE
          /\ \E doc \in ModelFiles : json_file = [exists |-> TRUE, doc |-> doc]
    /\ gen = [pos |-> 0, first_char |-> None, last_char |-> None, done |-> FALSE]
    /\ yielded = <<>>
    /\ curr = <<>>
    /\ counts = <<>>
    /\ automaton = <<>>
    /\ pc = IF ~raw THEN "import" ELSE IF order >= 1 THEN "prime" ELSE "build"
    /\ error = "none"
    /\ state = [r \in Calls |-> <<>>]
    /\ res = [r \in Calls |-> <<>>]
    /\ index = [r \in Calls |-> 0]
    /\ outcome = [r \in Calls |-> "idle"]

\* one iteration of `for _ in range(order): curr += next(gen)` (lines 78-79)
Prime ==
    /\ pc = "prime"
    /\ LET g == GenNext(gen)
       IN  IF g.stop
           THEN /\ pc' = "failed"
                /\ error' = "StopIteration"
                /\ UNCHANGED <<gen, yielded, curr>>
           ELSE /\ gen' = g.gen
                /\ yielded' = Append(yielded, [at |-> g.at, val |-> g.val])
                /\ IF g.val = None
                   THEN /\ pc' = "failed"
                        /\ error' = "TypeError"
                        /\ UNCHANGED curr
                   ELSE /\ curr' = Append(curr, g.val)
                        /\ pc' = IF Len(curr) + 1 >= order THEN "build" ELSE "prime"
                        /\ UNCHANGED error
    /\ UNCHANGED <<args, json_file, counts, automaton, state, res, index, outcome>>

\* one iteration of `for char in gen` (lines 81-83), or its end
Build ==
    /\ pc = "build"
    /\ LET g == GenNext(gen)
       IN  IF g.stop
           THEN /\ pc' = "normalize"
                /\ UNCHANGED <<gen, yielded, curr, counts, error>>
           ELSE /\ gen' = g.gen
                /\ yielded' = Append(yielded, [at |-> g.at, val |-> g.val])
                /\ counts' = Count(counts, curr, g.val)
                /\ IF g.val = None
                   THEN /\ pc' = "failed"
                        /\ error' = "TypeError"
                        /\ UNCHANGED curr
                   ELSE /\ curr' = Advance(curr, g.val)
                        /\ UNCHANGED <<pc, error>>
    /\ UNCHANGED <<args, json_file, automaton, state, res, index, outcome>>

\* return normalize_automaton(automaton) (lines 85, 194-195)
Normalize ==
    /\ pc = "normalize"
    /\ automaton' = normalize_automaton(counts)
    /\ pc' = IF export THEN "save" ELSE "start"
    /\ UNCHANGED <<args, json_file, gen, yielded, curr, counts, error, state, res, index, outcome>>

\* save_automaton(automaton, filename) (lines 196, 129-134)
Save ==
    /\ pc = "save"
    /\ json_file' = [exists |-> TRUE, doc |-> json_dumps(automaton)]
    /\ pc' = "start"
    /\ UNCHANGED <<args, gen, yielded, curr, counts, automaton, error, state, res, index, outcome>>

\* automaton = import_automaton(filename) (lines 198, 150-154)
Import ==
    /\ pc = "import"
    /\ automaton' = json_loads(json_file.doc)
    /\ pc' = "start"
    /\ UNCHANGED <<args, json_file, gen, yielded, curr, counts, error, state, res, index, outcome>>

\* a walk that starts from the last key
FirstKeyMut(d) == d[Len(d)].key

\* state = next(iter(automaton)) (line 200)
FirstKey(d) == d[1].key

\* lines 200-202, in both calls
Start ==
    /\ pc = "start"
    /\ IF automaton = <<>>
       THEN /\ outcome' = [r \in Calls |-> "StopIteration"]
            /\ pc' = "end"
            /\ UNCHANGED state
       ELSE /\ state' = [r \in Calls |-> FirstKey(automaton)]
            /\ outcome' = [r \in Calls |-> "running"]
            /\ pc' = "walk"
    /\ UNCHANGED <<args, json_file, gen, yielded, curr, counts, automaton, error, res, index>>

Running(r) == outcome[r] = "running"

\* one iteration of the while loop (lines 204-207) in every call still running
Step ==
    /\ pc = "walk"
    /\ \E r \in Calls : Running(r) /\ index[r] < length
    /\ \E u \in [Calls -> Draws] :
        /\ \A r \in Calls : u[r] \in SeededDraws(seed, u[1])
        /\ LET known(r) == HasKey(automaton, state[r])
               found(r) == Running(r) /\ known(r) /\ WeightsOk(Entry(automaton, state[r]))
               char(r) == Choice(Entry(automaton, state[r]), u[r])
           IN  /\ res' = [r \in Calls |-> IF found(r) THEN Append(res[r], char(r)) ELSE res[r]]
               /\ state' = [r \in Calls |-> IF found(r) THEN Advance(state[r], char(r)) ELSE state[r]]
               /\ index' = [r \in Calls |-> IF found(r) THEN index[r] + 1 ELSE index[r]]
               /\ outcome' = [r \in Calls |->
                                IF ~Running(r) THEN outcome[r]
                                ELSE IF ~known(r) THEN "KeyError"
                                ELSE IF ~found(r) THEN "ValueError"
                                ELSE outcome[r]]
    /\ automaton' = IF Running(1) /\ Running(2)
                      THEN AfterLookup(AfterLookup(automaton, state[1]), state[2])
                    ELSE IF Running(1) THEN AfterLookup(automaton, state[1])
                    ELSE AfterLookup(automaton, state[2])
    /\ pc' = IF \E r \in Calls : outcome'[r] = "running" THEN "walk" ELSE "end"
    /\ UNCHANGED <<args, json_file, gen, yielded, curr, counts, error>>

\* the loop condition fails and generate returns "".join(res) (lines 204, 210)
Return ==
    /\ pc = "walk"
    /\ \A r \in Calls : Running(r) => index[r] >= length
    /\ outcome' = [r \in Calls |-> IF Running(r) THEN "returned" ELSE outcome[r]]
    /\ pc' = "end"
    /\ UNCHANGED <<args, json_file, gen, yielded, curr, counts, automaton, error, state, res, index>>

Next == Prime \/ Build \/ Normalize \/ Save \/ Import \/ Start \/ Step \/ Return

Spec == Init /\ [][Next]_vars

-----------------------------------------------------------------------------
(* Properties *)

\* the automaton was returned by create_automaton
Built == raw /\ pc \in {"save", "start", "walk", "end"}

\* the build loop of create_automaton ran to the end of the stream
BuildDone == raw /\ pc \in {"normalize", "save", "start", "walk", "end"}

\* the values the filter yielded so far
Stream == [i \in 1..Len(yielded) |-> yielded[i].val]

\* the yields that come from source position j
YieldsAt(j) == {i \in 1..Len(yielded) : yielded[i].at = j}

\* C9: once the filter is exhausted, the last value it yielded (the sentinel)
\* equals the first value it yielded, and it is None exactly when the
\* source produced no character.
C9_SentinelIsFirstYielded ==
    gen.done =>
        /\ Stream[Len(Stream)] = Stream[1]
        /\ (Stream[Len(Stream)] = None <=> Len(Stream) = 1)

\* C10 as claimed: of the source characters consumed, a newline that directly
\* follows a newline yields nothing, every other newline yields exactly one
\* space, and the other non-printable characters yield nothing.
C10_NewlineAfterNewlineOnly ==
    \A j \in 1..gen.pos :
        /\ (text[j] = NL /\ j > 1 /\ text[j - 1] = NL) => YieldsAt(j) = {}
        /\ (text[j] = NL /\ (j = 1 \/ text[j - 1] # NL)) =>
               /\ Cardinality(YieldsAt(j)) = 1
               /\ \A i \in YieldsAt(j) : yielded[i].val = SPACE
        /\ (text[j] \in non_printable \ {NL}) => YieldsAt(j) = {}

\* source position j is a newline reached from an earlier newline through
\* non-printable characters only
FollowsNewline(j) ==
    \E k \in 1..(j - 1) :
        /\ text[k] = NL
        /\ \A m \in k..(j - 1) : text[m] \in non_printable

\* C10 amended: a newline yields nothing when only non-printable characters
\* stand between it and an earlier newline, every other newline yields
\* exactly one space, and the other non-printable characters yield nothing.
C10_NewlineCollapse ==
    \A j \in 1..gen.pos :
        /\ (text[j] = NL /\ FollowsNewline(j)) => YieldsAt(j) = {}
        /\ (text[j] = NL /\ ~FollowsNewline(j)) =>
               /\ Cardinality(YieldsAt(j)) = 1
               /\ \A i \in YieldsAt(j) : yielded[i].val = SPACE
        /\ (text[j] \in non_printable \ {NL}) => YieldsAt(j) = {}

\* a newline, a tab and a newline were consumed, and the second newline was dropped
C10_Witness ==
    \E j \in 3..gen.pos :
        /\ text[j] = NL /\ text[j - 1] = TAB /\ text[j - 2] = NL
        /\ YieldsAt(j) = {}
        /\ Cardinality(YieldsAt(j - 2)) = 1

\* C5: in the automaton create_automaton returns, the probabilities of every
\* context sum to exactly 1.
C5_ProbabilitiesSumToOne ==
    Built =>
        \A i \in 1..Len(automaton) :
            LET probs == automaton[i].val.probs
                sum == CumWeight(probs, Len(probs))
            IN  sum.den # 0 /\ sum.num = sum.den

\* a built automaton with a context of two successors of unequal probabilities
C5_Witness ==
    /\ Built
    /\ \E i \in 1..Len(automaton) :
          LET probs == automaton[i].val.probs
          IN  Len(probs) >= 2 /\ probs[1].num # probs[2].num

\* C6: every context of a built automaton has a non-empty successor list of
\* the same length as its probability list, every probability is strictly
\* positive, and every count of the count table is at least 1.
C6_WellFormedEntries ==
    /\ \A i \in 1..Len(counts) : \A j \in 1..Len(counts[i].val) : counts[i].val[j].val >= 1
    /\ Built =>
        \A i \in 1..Len(automaton) :
            LET e == automaton[i].val
            IN  /\ Len(e.chars) >= 1
                /\ Len(e.chars) = Len(e.probs)
                /\ \A j \in 1..Len(e.probs) : e.probs[j].num > 0 /\ e.probs[j].den > 0

\* a built automaton with two contexts
C6_Witness == Built /\ Len(automaton) >= 2

\* number of positions of the stream where context x is followed by c
Occurrences(x, c) ==
    Cardinality({i \in 1..(Len(Stream) - order) :
                    SubSeq(Stream, i, i + order - 1) = x /\ Stream[i + order] = c})

\* the count table's entry for c under x, 0 when absent
CountOf(x, c) ==
    IF ~HasKey(counts, x) THEN 0
    ELSE LET t == counts[KeyIndex(counts, x)].val
         IN  IF HasKey(t, c) THEN t[KeyIndex(t, c)].val ELSE 0

Windows == {SubSeq(Stream, i, i + order - 1) : i \in 1..(Len(Stream) - order + 1)}

StreamValues == {Stream[i] : i \in 1..Len(Stream)}

\* C7: for order >= 1 and a stream longer than order, once the build loop
\* ended the count of c under x is the number of positions where x is
\* followed by c in the stream, and the keys are the contexts followed by
\* some value.
C7_CountsAreOccurrences ==
    (BuildDone /\ order >= 1 /\ Len(Stream) > order) =>
        /\ \A x \in Windows \cup Keys(counts) :
              \A c \in StreamValues \cup UNION {Keys(counts[i].val) : i \in 1..Len(counts)} :
                  CountOf(x, c) = Occurrences(x, c)
        /\ Keys(counts) = {x \in Windows : \E c \in StreamValues : Occurrences(x, c) >= 1}

\* a count table of order 2 with two contexts, built to the end
C7_Witness == BuildDone /\ order = 2 /\ Len(counts) >= 2

\* the filter's first_char is the first value it yielded (it is not when the
\* first value comes from a newline: first_char is then the newline, the value
\* a space)
FirstCharYielded == Len(yielded) >= 1 => gen.first_char = yielded[1].val

\* C1: for order >= 1, a call of generate that walks an automaton built
\* from the training text ends by returning a string of exactly `length`
\* characters (stated for the texts whose sentinel is the first value
\* yielded).
C1_LengthContract ==
    (raw /\ order >= 1 /\ automaton # <<>> /\ FirstCharYielded) =>
        \A r \in Calls :
            outcome[r] \notin {"idle", "running"} =>
                outcome[r] = "returned" /\ Len(res[r]) = length

\* C2: for order >= 1, after every step of the walk the new state is a key
\* of the automaton (stated for the texts whose sentinel is the first value
\* yielded).
C2_NeverUnseenContext ==
    (raw /\ order >= 1 /\ FirstCharYielded) =>
        \A r \in Calls :
            (pc \in {"walk", "end"} /\ index[r] >= 1) => HasKey(automaton, state[r])

\* C3: for order = 1, every successor listed under a context of the built
\* automaton is itself a key, and the walk never looks up a missing context.
C3_OrderOneClosed ==
    (order = 1 /\ Built) =>
        /\ \A i \in 1..Len(automaton) :
              \A j \in 1..Len(automaton[i].val.chars) :
                  HasKey(automaton, <<automaton[i].val.chars[j]>>)
        /\ \A r \in Calls : outcome[r] # "KeyError"

ScenarioRun == text = ScenarioText /\ order = 1

\* the entry of context <<x>> lists the single successor y with probability 1.0
OnlySuccessor(x, y) ==
    /\ HasKey(automaton, <<x>>)
    /\ LET e == Entry(automaton, <<x>>)
       IN  /\ e.chars = <<y>>
           /\ Len(e.probs) = 1
           /\ e.probs[1].num = e.probs[1].den /\ e.probs[1].den # 0

\* C8: training on "ababab" with order 1 gives exactly the contexts "a" -> "b"
\* and "b" -> "a", each with probability 1.0; the walk starts at context "a"
\* and a call with length 4 returns "baba", whatever the seed.
C8_AbababScenario ==
    ScenarioRun =>
        /\ Built =>
              /\ Len(automaton) = 2
              /\ OnlySuccessor("a", "b")
              /\ OnlySuccessor("b", "a")
        /\ \A r \in Calls :
              /\ (outcome[r] = "running" /\ index[r] = 0) => state[r] = <<"a">>
              /\ (outcome[r] = "returned" /\ length = 4) => res[r] = <<"b", "a", "b", "a">>

\* the scenario's call of length 4 returned "baba"
C8_Witness ==
    /\ ScenarioRun /\ length = 4
    /\ outcome[1] = "returned"
    /\ res[1] = <<"b", "a", "b", "a">>

Range(f) == {f[i] : i \in 1..Len(f)}

\* C11: with ignore_case false every character of the keys and successors of
\* a built automaton is lowercase; with ignore_case true every value yielded
\* for a printable source character is that character, case kept.
C11_CaseHandling ==
    /\ (~ignore_case /\ Built) =>
          \A i \in 1..Len(automaton) :
              \A c \in Range(automaton[i].key) \cup Range(automaton[i].val.chars) :
                  lower(c) = c
    /\ (raw /\ ignore_case) =>
          \A i \in 1..Len(yielded) :
              (yielded[i].at # 0 /\ text[yielded[i].at] \notin non_printable) =>
                  yielded[i].val = text[yielded[i].at]

\* an automaton built with ignore_case false from a text with an uppercase letter
C11_Witness ==
    /\ Built /\ ~ignore_case
    /\ "A" \in Range(text)
    /\ Len(automaton) >= 1

\* number of characters the filter produced from the source (the sentinel apart)
FilteredChars == Cardinality({i \in 1..Len(yielded) : yielded[i].at # 0})

\* C12: when the filtered sequence has fewer than order characters, the
\* construction ends with InsufficientDataError and returns no automaton.
C12_InsufficientData ==
    (raw /\ order >= 1 /\ gen.done /\ FilteredChars < order /\ pc \notin {"prime", "build"}) =>
        pc = "failed" /\ error = "InsufficientDataError"

\* C13: for order <= 0 create_automaton never returns an automaton.
C13_InvalidOrder ==
    (raw /\ order <= 0) => (pc # "normalize" /\ ~Built)

\* C14: the value import_automaton reads from the file save_automaton wrote
\* equals the automaton saved, entry shapes included.
C14_RoundTrip ==
    (raw /\ order >= 1 /\ json_file.exists) => json_loads(json_file.doc) = automaton

\* a saved automaton that fails structural validation
Malformed(doc) ==
    \E i \in 1..Len(doc) :
        LET e == doc[i].val
            sum == CumWeight(e.probs, Len(e.probs))
        IN  Len(e.chars) # Len(e.probs) \/ sum.num # sum.den

\* C15: generation never runs on a loaded model that fails validation: no
\* call asked for one character or more produces a character or returns.
C15_MalformedRejected ==
    (~raw /\ Malformed(json_file.doc) /\ length >= 1) =>
        \A r \in Calls : index[r] = 0 /\ outcome[r] # "returned"

\* a step taken once the automaton is built or loaded leaves it as it is
KeepsAutomaton ==
    (pc \in {"save", "start", "walk", "end"}) => (automaton' = automaton)

\* C16: once the automaton is built or loaded, no step changes it.
C16_ReadOnly == [][KeepsAutomaton]_vars

\* a walk of a built automaton looked up a context that is no key
C16_Witness ==
    /\ raw
    /\ outcome[1] = "KeyError"
    /\ ~HasKey(automaton, state[1])

\* the call r has a current context
Walking(r) == outcome[r] \in {"running", "returned", "KeyError", "ValueError"}

C18_InitialContext ==
    \A r \in Calls :
        (Walking(r) /\ index[r] = 0) =>
            /\ state[r] = automaton[1].key
            /\ raw => state[r] = SubSeq(Stream, 1, order)

\* a seeded walk of an automaton of two contexts of order 2 is at its start
C18_Witness ==
    /\ raw /\ order = 2 /\ seed # NoSeed
    /\ Len(automaton) >= 2
    /\ outcome[1] = "running" /\ index[1] = 0

\* first position of the stream where context x is followed by c
FirstFollow(x, c) ==
    Min({i \in 1..(Len(Stream) - order) :
            SubSeq(Stream, i, i + order - 1) = x /\ Stream[i + order] = c})

\* C19: in a built automaton the i-th context is the i-th key of the count
\* table, its successor list is the count table's characters in the order
\* they were first seen after that context, and its j-th probability is the
\* count of the j-th successor divided by the sum of the context's counts.
C19_AlignedInInsertionOrder ==
    Built =>
        /\ Len(automaton) = Len(counts)
        /\ \A i \in 1..Len(automaton) :
              LET e == automaton[i].val
                  t == counts[i].val
              IN  /\ automaton[i].key = counts[i].key
                  /\ Len(e.chars) = Len(t) /\ Len(e.probs) = Len(t)
                  /\ \A j \in 1..Len(t) :
                        /\ e.chars[j] = t[j].key
                        /\ e.probs[j].den # 0
                        /\ e.probs[j].num * SumVals(t) = t[j].val * e.probs[j].den
                  /\ order >= 1 =>
                        \A j, k \in 1..Len(t) :
                            j < k => FirstFollow(counts[i].key, e.chars[j])
                                       < FirstFollow(counts[i].key, e.chars[k])

\* a built automaton of order 1 with a context whose first successor is the
\* more frequent of two
C19_Witness ==
    /\ Built /\ order = 1
    /\ \E i \in 1..Len(automaton) :
          LET probs == automaton[i].val.probs
          IN  Len(probs) = 2 /\ probs[1].num > probs[2].num

\* the initial context followed by the characters call r generated so far
Walked(r) == automaton[1].key \o res[r]

\* C20: at every step of a walk of a built automaton, every window of
\* order + 1 consecutive characters of the initial context followed by the
\* generated characters occurs as consecutive values of the filtered stream.
C20_WindowsOccurInStream ==
    (raw /\ order >= 1) =>
        \A r \in Calls :
            Walking(r) =>
                \A i \in 1..(Len(Walked(r)) - order) :
                    \E k \in 1..(Len(Stream) - order) :
                        SubSeq(Walked(r), i, i + order) = SubSeq(Stream, k, k + order)

\* a walk generated two characters and then failed on a missing context
C20_Witness ==
    /\ raw /\ order = 2
    /\ outcome[1] = "KeyError"
    /\ Len(res[1]) >= 2

====
